---- MODULE Spec2Model ----
(***************************************************************************)
(* A model of exovetter/utils.py: the weighted least-squares fit WqedLSF   *)
(* with its amplitude/phase queries, the iterative outlier rejection       *)
(* sigmaClip, the transit-cadence masker mark_transit_cadences and the     *)
(* running-median filter median_detrend.                                    *)
(*                                                                         *)
(* Numbers.  A float is a record [k, n, d]: k = "fin" carries the rational *)
(* n/d in lowest terms, k = "nan" and k = "inf" are the IEEE specials.     *)
(* Finite arithmetic is exact: rounding error is not modelled.  The sign   *)
(* of an infinity is not tracked, no modelled code path reads it.          *)
(* A non-negative real that the code obtains from a square root (hypot,    *)
(* sqrt) is carried by its square.  Angles are carried in units of pi/12.  *)
(***************************************************************************)
EXTENDS Integers, Sequences, FiniteSets, TLC

VARIABLES
    \* WqedLSF and the code that calls it
    heap,      \* the arrays, by reference: the caller's x, y, s and the
               \* array __init__ allocates for s ("s_new")
    call,      \* the arguments of the constructor call
    inst,      \* the WqedLSF instance, or NoInst
    exc,       \* the exception the last call raised, or NoExc
    ret,       \* the caller's last operation on the instance and its result
    nfit,      \* how many times _fit has run
    writes,    \* how many times the caller has written into its arrays
    lpc,       \* "new", "built" (constructor returned), "failed" (it raised)
    \* sigmaClip
    cargs,     \* the arguments y, nSigma, maxIter, initialClip of the call
    idx,       \* the loop's current mask
    oldNumClipped,
    iter,      \* the loop variable i of range(int(maxIter))
    cpc,       \* "idle", "loop", "converged" (returned from inside the loop),
               \* "exhausted" (returned after the loop), "raised"
    cret,      \* the mask returned
    cexc,      \* the exception raised, or NoExc
    cfirst,    \* the result of the first call, when this is the re-run
    ccall,     \* 0 before any call, 1 in the first call, 2 in the re-run
    \* mark_transit_cadences
    margs,     \* time, period_days, epoch_bkjd, duration_days, num_durations, flags
    mpc,       \* "idle", "returned", "raised"
    tts,       \* transit_times, once computed
    midx,      \* the mask returned
    mseen,     \* how many transit centers the loop has evaluated
    mwarn,     \* how many warnings were emitted
    mexc,      \* the exception raised, or NoExc
    \* median_detrend
    dargs,     \* the arguments flux, nPoints of the call
    dpc,       \* "idle", "loop", "returned"
    di,        \* how many iterations of the loop over i have run
    dwin,      \* lwr, upr and sub of the last iteration, or NoWindow
    filtered,  \* the output array
    dret       \* the array returned, or NoRet

lsfVars == <<heap, call, inst, exc, ret, nfit, writes, lpc>>
clipVars == <<cargs, idx, oldNumClipped, iter, cpc, cret, cexc, cfirst, ccall>>
markVars == <<margs, mpc, tts, midx, mseen, mwarn, mexc>>
detrendVars == <<dargs, dpc, di, dwin, filtered, dret>>
vars == <<lsfVars, clipVars, markVars, detrendVars>>

----------------------------------------------------------------------------
(* Bounds of the model *)

MaxLen == 3       \* longest array passed to WqedLSF
MaxOrder == 3     \* largest fit order tried
MaxWrites == 1    \* writes of the caller into its arrays after construction

----------------------------------------------------------------------------
(* Floats *)

Abs(i) == IF i < 0 THEN -i ELSE i

Sign(i) == IF i < 0 THEN -1 ELSE IF i > 0 THEN 1 ELSE 0

RECURSIVE Gcd(_, _)
Gcd(a, b) == IF b = 0 THEN a ELSE Gcd(b, a % b)

Rat(n, d) ==
    LET g == Gcd(Abs(n), Abs(d))
        sg == IF d < 0 THEN -1 ELSE 1
    IN  [k |-> "fin", n |-> sg * (n \div g), d |-> sg * (d \div g)]

Fin(i) == [k |-> "fin", n |-> i, d |-> 1]
NaN == [k |-> "nan", n |-> 0, d |-> 1]
Inf == [k |-> "inf", n |-> 0, d |-> 1]

isfinite(a) == a.k = "fin"

isnan(a) == a.k = "nan"

FAdd(a, b) ==
    IF isnan(a) \/ isnan(b) THEN NaN
    ELSE IF a.k = "inf" \/ b.k = "inf" THEN Inf
    ELSE Rat(a.n * b.d + b.n * a.d, a.d * b.d)

FSub(a, b) ==
    IF isnan(a) \/ isnan(b) THEN NaN
    ELSE IF a.k = "inf" /\ b.k = "inf" THEN NaN
    ELSE IF a.k = "inf" \/ b.k = "inf" THEN Inf
    ELSE Rat(a.n * b.d - b.n * a.d, a.d * b.d)

FMul(a, b) ==
    IF isnan(a) \/ isnan(b) THEN NaN
    ELSE IF a.k = "inf" \/ b.k = "inf"
         THEN IF (isfinite(a) /\ a.n = 0) \/ (isfinite(b) /\ b.n = 0)
              THEN NaN ELSE Inf
    ELSE Rat(a.n * b.n, a.d * b.d)

FDiv(a, b) ==
    IF isnan(a) \/ isnan(b) THEN NaN
    ELSE IF b.k = "inf" THEN (IF a.k = "inf" THEN NaN ELSE Fin(0))
    ELSE IF a.k = "inf" THEN Inf
    ELSE IF b.n = 0 THEN (IF a.n = 0 THEN NaN ELSE Inf)
    ELSE Rat(a.n * b.d, a.d * b.n)

\* np.sum and np.dot accumulate with +.
RECURSIVE FSum(_)
FSum(s) == IF s = <<>> THEN Fin(0) ELSE FAdd(FSum(SubSeq(s, 1, Len(s) - 1)), s[Len(s)])

all_isfinite(a) == \A k \in 1..Len(a) : isfinite(a[k])

----------------------------------------------------------------------------
(* Exceptions *)

NoExc == [type |-> "none", msg |-> ""]
ValueError(m) == [type |-> "ValueError", msg |-> m]
AssertionError(m) == [type |-> "AssertionError", msg |-> m]
LinAlgError == [type |-> "LinAlgError", msg |-> "Singular matrix"]

----------------------------------------------------------------------------
(* sine, and a caller-supplied basis *)

\* The angle 2*pi/period * x, in quarter turns modulo a full turn.  The
\* model's abscissas lie on the quarter-period grid, where sin and cos are
\* exactly 0, 1 or -1.
QuarterTurns(x, period) ==
    LET t == FDiv(FMul(Fin(4), x), Fin(period))
    IN  CASE t.d = 1 -> t.n % 4

sine_raises(order) == order \notin {0, 1}

sine(x, order, period) ==
    IF ~isfinite(x) THEN NaN
    ELSE LET q == QuarterTurns(x, period)
         IN  IF order = 0
             THEN Fin(CASE q = 0 -> 0 [] q = 1 -> 1 [] q = 2 -> 0 [] q = 3 -> -1)
             ELSE Fin(CASE q = 0 -> 1 [] q = 1 -> 0 [] q = 2 -> -1 [] q = 3 -> 0)

\* A basis other than sine that a caller passes as func: the monomial x^order.
RECURSIVE poly(_, _)
poly(x, order) == IF order = 0 THEN Fin(1) ELSE FMul(x, poly(x, order - 1))

\* self.func(x, i, **self.kwargs)
func_raises(func, order) == func = "sine" /\ sine_raises(order)

func_apply(func, x, order, kwargs) ==
    IF func = "sine"
    THEN sine(x, order, IF "period" \in DOMAIN kwargs THEN kwargs.period ELSE 1)
    ELSE poly(x, order)

----------------------------------------------------------------------------
(* WqedLSF.__init__ *)

NoInst == [made |-> FALSE]

\* init_check with the order test off by one (order > size)
init_check_off_by_one(x, y, s, order, func, kwargs) ==
    LET size == Len(x)
    IN  IF func = "sine" /\ "period" \notin DOMAIN kwargs
            THEN "period must be provided for sine function"
        ELSE IF size = 0 THEN "x is zero length"
        ELSE IF size # Len(y) THEN "x and y must have same length"
        ELSE IF order < 1 THEN "Order must be at least 1"
        ELSE IF order > size
            THEN "Length of input must be at least one greater than order"
        ELSE IF ~all_isfinite(x) THEN "Nan or Inf found in x"
        ELSE IF ~all_isfinite(y) THEN "Nan or Inf found in y"
        ELSE IF s.form = "none" THEN "ok"
        ELSE IF s.form = "scalar" THEN "ok"
        ELSE IF size # Len(s.a) THEN "x and s must have same length"
        ELSE IF ~all_isfinite(s.a) THEN "Nan or Inf found in s"
        ELSE "ok"

\* The checks of __init__, in the order of the code: the message of the
\* ValueError raised, or "ok".  s is [form, v, a]: form "none" (omitted),
\* "scalar" (v) or "array" (a).
init_check(x, y, s, order, func, kwargs) ==
    LET size == Len(x)
    IN  IF func = "sine" /\ "period" \notin DOMAIN kwargs
            THEN "period must be provided for sine function"
        ELSE IF size = 0 THEN "x is zero length"
        ELSE IF size # Len(y) THEN "x and y must have same length"
        ELSE IF order < 1 THEN "Order must be at least 1"
        ELSE IF order >= size
            THEN "Length of input must be at least one greater than order"
        ELSE IF ~all_isfinite(x) THEN "Nan or Inf found in x"
        ELSE IF ~all_isfinite(y) THEN "Nan or Inf found in y"
        ELSE IF s.form = "none" THEN "ok"
        ELSE IF s.form = "scalar" THEN "ok"
        ELSE IF size # Len(s.a) THEN "x and s must have same length"
        ELSE IF ~all_isfinite(s.a) THEN "Nan or Inf found in s"
        ELSE "ok"

\* The array bound to s after the checks: np.ones(size), np.zeros(size) + s,
\* or the caller's array itself.
init_s(size, s) ==
    IF s.form = "none" THEN [k \in 1..size |-> Fin(1)]
    ELSE IF s.form = "scalar" THEN [k \in 1..size |-> FAdd(Fin(0), s.v)]
    ELSE s.a

\* The reference self.s holds: a fresh array, or the caller's.
init_s_ref(s) == IF s.form = "array" THEN "s" ELSE "s_new"

----------------------------------------------------------------------------
(* Linear algebra of WqedLSF._fit *)

Minor(M, i, j) ==
    [r \in 1..(Len(M) - 1) |->
        [c \in 1..(Len(M) - 1) |->
            M[IF r < i THEN r ELSE r + 1][IF c < j THEN c ELSE c + 1]]]

RECURSIVE Det(_)
Det(M) ==
    IF Len(M) = 1 THEN M[1][1]
    ELSE FSum([j \in 1..Len(M) |->
                 FMul(FMul(Fin(IF j % 2 = 1 THEN 1 ELSE -1), M[1][j]),
                      Det(Minor(M, 1, j)))])

Cofactor(M, i, j) ==
    IF Len(M) = 1 THEN Fin(1)
    ELSE FMul(Fin(IF (i + j) % 2 = 0 THEN 1 ELSE -1), Det(Minor(M, i, j)))

\* np.linalg.inv: LinAlgError on a singular matrix; a matrix holding a
\* non-finite entry is "inverted" to NaNs without an error.
inv(A) ==
    LET n == Len(A)
    IN  IF \E i \in 1..n : ~all_isfinite(A[i])
            THEN [exc |-> NoExc, m |-> [i \in 1..n |-> [j \in 1..n |-> NaN]]]
        ELSE IF Det(A).n = 0 THEN [exc |-> LinAlgError, m |-> <<>>]
        ELSE [exc |-> NoExc,
              m |-> [i \in 1..n |-> [j \in 1..n |->
                        FDiv(Cofactor(A, j, i), Det(A))]]]

\* df: column i is func(x, i, **kwargs) / s
design(self, h) ==
    [k \in 1..self.data_size |->
        [i \in 1..self.order |->
            FDiv(func_apply(self.func, h[self.x][k], i - 1, self.kwargs),
                 h[self.s][k])]]

\* A = np.dot(df.T, df)
normal_matrix(df, order) ==
    [i \in 1..order |-> [j \in 1..order |->
        FSum([k \in 1..Len(df) |-> FMul(df[k][i], df[k][j])])]]

\* wy = self.y / self.s
weighted_y(self, h) ==
    [k \in 1..self.data_size |-> FDiv(h[self.y][k], h[self.s][k])]

\* beta = np.dot(wy, df)
projection(wy, df, order) ==
    [i \in 1..order |-> FSum([k \in 1..Len(df) |-> FMul(wy[k], df[k][i])])]

\* params = np.dot(beta, covar), stored with covar
fit_store(covar, beta, order) ==
    IF covar.exc # NoExc
    THEN [exc |-> covar.exc, param |-> <<>>, cov |-> <<>>]
    ELSE [exc |-> NoExc,
          param |-> [j \in 1..order |->
                        FSum([i \in 1..order |-> FMul(beta[i], covar.m[i][j])])],
          cov |-> covar.m]

fit_solve(df, wy, order) ==
    fit_store(inv(normal_matrix(df, order)), projection(wy, df, order), order)

\* WqedLSF._fit: the exception it raises (or NoExc), and _param and _cov
fit(self, h) ==
    IF \E i \in 0..(self.order - 1) : func_raises(self.func, i)
    THEN [exc |-> ValueError("Order should be zero or one"),
          param |-> <<>>, cov |-> <<>>]
    ELSE fit_solve(design(self, h), weighted_y(self, h), self.order)

----------------------------------------------------------------------------
(* The queries of WqedLSF *)

Pi == 12    \* np.pi, in the model's angle unit of pi/12

params(self) == self.param

covariance(self) == self.cov

get_best_fit_model(self, h, x) ==
    [k \in 1..Len(x) |->
        FSum([i \in 1..self.order |->
                FMul(params(self)[i],
                     func_apply(self.func, x[k], i - 1, self.kwargs))])]

subtract(y, model) == [k \in 1..Len(y) |-> FSub(y[k], model[k])]

residuals(self, h) ==
    subtract(h[self.y], get_best_fit_model(self, h, h[self.x]))

sum_of_squares(resid) == FSum([k \in 1..Len(resid) |-> FMul(resid[k], resid[k])])

variance(self, h) ==
    FDiv(sum_of_squares(residuals(self, h)), Fin(self.data_size - self.order))

\* compute_amplitude with a guard that tests the order alone
compute_amplitude_order_only(self, h) ==
    IF self.order # 2
    THEN [exc |-> ValueError("Only applicable to sine function with order=2"),
          val |-> <<>>]
    ELSE [exc |-> NoExc,
          val |-> << FAdd(FMul(self.param[1], self.param[1]),
                          FMul(self.param[2], self.param[2])),
                     Fin(0) >>]

\* Returns (amp, amp_unc), each carried by its square.
compute_amplitude(self, h) ==
    IF self.func # "sine" \/ self.order # 2
    THEN [exc |-> ValueError("Only applicable to sine function with order=2"),
          val |-> <<>>]
    ELSE [exc |-> NoExc,
          val |-> << FAdd(FMul(params(self)[1], params(self)[1]),
                          FMul(params(self)[2], params(self)[2])),
                     FDiv(FMul(Fin(2), variance(self, h)), Fin(self.data_size)) >>]

\* p / amp, with amp carried by its square: its sign and its square, or NaN.
ratio(p, amp_sq) ==
    IF ~isfinite(p) \/ ~isfinite(amp_sq) \/ amp_sq.n = 0
    THEN [nan |-> TRUE, sgn |-> 0, sq |-> NaN]
    ELSE [nan |-> FALSE, sgn |-> Sign(p.n), sq |-> FDiv(FMul(p, p), amp_sq)]

negate(r) == [r EXCEPT !.sgn = -r.sgn]

le0(r) == ~r.nan /\ r.sgn <= 0

ge0(r) == ~r.nan /\ r.sgn >= 0

\* np.arccos(np.fabs(r)) in units of pi/12: exact at |r| = 1 and r = 0 and
\* at the multiples of pi/12 with a rational squared cosine; any other value
\* goes to the nearest interior grid point, never to an end of [0, pi/2].
arccos_fabs(r) ==
    IF r.nan THEN NaN
    ELSE IF r.sq.n = r.sq.d THEN Fin(0)
    ELSE IF r.sq.n = 0 THEN Fin(Pi \div 2)
    ELSE IF r.sq.n * 1000000 > 853553 * r.sq.d THEN Fin(1)
    ELSE IF r.sq.n * 1000000 > 629410 * r.sq.d THEN Fin(2)
    ELSE IF r.sq.n * 1000000 > 370590 * r.sq.d THEN Fin(3)
    ELSE IF r.sq.n * 1000000 > 146447 * r.sq.d THEN Fin(4)
    ELSE Fin(5)

\* np.arcsin(np.fabs(r)), likewise.
arcsin_fabs(r) ==
    IF r.nan THEN NaN
    ELSE IF r.sq.n = 0 THEN Fin(0)
    ELSE IF r.sq.n = r.sq.d THEN Fin(Pi \div 2)
    ELSE IF r.sq.n * 1000000 < 146447 * r.sq.d THEN Fin(1)
    ELSE IF r.sq.n * 1000000 < 370590 * r.sq.d THEN Fin(2)
    ELSE IF r.sq.n * 1000000 < 629410 * r.sq.d THEN Fin(3)
    ELSE IF r.sq.n * 1000000 < 853553 * r.sq.d THEN Fin(4)
    ELSE Fin(5)

\* The branch of the if/elif chain that decides the quadrant; "I" is no branch.
quadrant(r1, r2) ==
    IF le0(r1) /\ ge0(r2) THEN "II"
    ELSE IF le0(r1) /\ le0(r2) THEN "III"
    ELSE IF ge0(r1) /\ le0(r2) THEN "IV"
    ELSE "I"

\* What the branch q does to one of the raw angles invcos, invsin.
adjust(q, v) ==
    CASE q = "II" -> FSub(Fin(Pi), v)
      [] q = "III" -> FAdd(v, Fin(Pi))
      [] q = "IV" -> FSub(Fin(2 * Pi), v)
      [] OTHER -> v

\* phase = 0.5 * (invcos + invsin), after the quadrant's adjustment
phase_of(r1, r2) ==
    FMul(Rat(1, 2),
         FAdd(adjust(quadrant(r1, r2), arccos_fabs(r1)),
              adjust(quadrant(r1, r2), arcsin_fabs(r2))))

phase_from(par, a) ==
    IF a.exc # NoExc THEN a
    ELSE [exc |-> NoExc,
          val |-> << phase_of(ratio(par[1], a.val[1]),
                              negate(ratio(par[2], a.val[1]))),
                     FDiv(a.val[2], a.val[1]) >>]

\* Returns (phase, phase_unc): the phase in units of pi/12, the uncertainty
\* carried by its square.
compute_phase(self, h) == phase_from(params(self), compute_amplitude(self, h))

----------------------------------------------------------------------------
(* The calls a client makes on WqedLSF *)

NoKwargs == [k \in {} |-> 0]

SOmitted == [form |-> "none", v |-> Fin(0), a |-> <<>>]
SScalar(v) == [form |-> "scalar", v |-> v, a |-> <<>>]
SArray(a) == [form |-> "array", v |-> Fin(0), a |-> a]

Grid(n, x0) == [k \in 1..n |-> Fin(x0 + k - 1)]

Const(n, v) == [k \in 1..n |-> v]

\* a, and a with one entry overwritten by a NaN or an Inf
Poked(a) == {a} \cup {[a EXCEPT ![p] = v] : p \in 1..Len(a), v \in {NaN, Inf}}

Bases ==
    { [func |-> "sine", kwargs |-> NoKwargs],
      [func |-> "sine", kwargs |-> [period |-> 4]],
      [func |-> "poly", kwargs |-> NoKwargs] }

\* Well-formed series of every value pattern: abscissas on a grid of quarter
\* periods, ordinates +-1, the uncertainty omitted, scalar or per point.
DataX == {Grid(n, x0) : n \in 1..MaxLen, x0 \in {-1, 0}}

DataY(n) == [1..n -> {Fin(-1), Fin(1)}]

DataS(n) == {SOmitted, SScalar(Fin(2)), SArray([k \in 1..n |-> Fin(1 + (k % 2))])}

DataBases == Bases \ {[func |-> "sine", kwargs |-> NoKwargs]}

\* Series of every shape: independent lengths, a non-finite entry anywhere,
\* every form of s, every order and basis.
ShapeX == UNION {Poked(Grid(n, 0)) : n \in 0..MaxLen}

ShapeY == UNION {Poked(Const(m, Fin(0))) : m \in 0..MaxLen}

ShapeS ==
    {SOmitted, SScalar(Fin(1)), SScalar(NaN), SScalar(Inf)}
    \cup UNION {{SArray(a) : a \in Poked(Const(l, Fin(1)))} : l \in 0..MaxLen}

NoRet == [op |-> "none", val |-> <<>>]

\* self after the stores of __init__, before _fit
init_self(in) ==
    [made |-> TRUE, data_size |-> Len(in.x), x |-> "x", y |-> "y",
     s |-> init_s_ref(in.s), order |-> in.order, func |-> in.func,
     kwargs |-> in.kwargs, param |-> <<>>, cov |-> <<>>]

\* the arrays after __init__: the caller's, and the one allocated for s
init_heap(in, msg) ==
    [x |-> in.x, y |-> in.y, s |-> in.s.a,
     s_new |-> IF msg = "ok" /\ in.s.form # "array"
               THEN init_s(Len(in.x), in.s) ELSE <<>>]

\* the end of __init__: _fit has run, and returned or raised
Fitted(self, f) ==
    /\ nfit' = nfit + 1
    /\ exc' = f.exc
    /\ IF f.exc # NoExc
       THEN inst' = NoInst /\ lpc' = "failed"
       ELSE /\ inst' = [self EXCEPT !.param = f.param, !.cov = f.cov]
            /\ lpc' = "built"

Checked(in, msg, h) ==
    /\ heap' = h
    /\ IF msg # "ok"
       THEN /\ exc' = ValueError(msg)
            /\ inst' = NoInst
            /\ nfit' = nfit
            /\ lpc' = "failed"
       ELSE Fitted(init_self(in), fit(init_self(in), h))

\* WqedLSF(x, y, s, order, func, **kwargs): the checks, the stores into self
\* and the call of _fit.
Construct(in) ==
    /\ lpc = "new"
    /\ call' = [s_form |-> in.s.form, s_v |-> in.s.v, order |-> in.order,
                func |-> in.func, kwargs |-> in.kwargs]
    /\ Checked(in,
               init_check(in.x, in.y, in.s, in.order, in.func, in.kwargs),
               init_heap(in, init_check(in.x, in.y, in.s, in.order, in.func, in.kwargs)))
    /\ UNCHANGED <<ret, writes>>
    /\ UNCHANGED <<clipVars, markVars, detrendVars>>

\* A client constructs a fit from a well-formed series.
ConstructData ==
    /\ lpc = "new"
    /\ \E x \in DataX, order \in 1..MaxOrder, b \in DataBases :
          \E y \in DataY(Len(x)), s \in DataS(Len(x)) :
              Construct([x |-> x, y |-> y, s |-> s, order |-> order,
                         func |-> b.func, kwargs |-> b.kwargs])

\* A client constructs a fit from arrays of any shape.
ConstructShape ==
    /\ lpc = "new"
    /\ \E x \in ShapeX, y \in ShapeY, s \in ShapeS,
          order \in 0..MaxOrder, b \in Bases :
              Construct([x |-> x, y |-> y, s |-> s, order |-> order,
                         func |-> b.func, kwargs |-> b.kwargs])

\* A query whose model evaluation starts from y = x instead of
\* np.zeros_like(x), so that its += lands in the array self.x refers to.
Query_accumulates_into_x(op, r) ==
    /\ lpc = "built"
    /\ ret' = [op |-> op, val |-> r.val]
    /\ exc' = r.exc
    /\ heap' = IF op \in {"get_best_fit_model", "residuals", "variance"}
               THEN [heap EXCEPT ![inst.x] =
                        [k \in 1..Len(heap[inst.x]) |->
                            FAdd(heap[inst.x][k],
                                 get_best_fit_model(inst, heap, heap[inst.x])[k])]]
               ELSE heap
    /\ UNCHANGED <<call, inst, nfit, writes, lpc>>
    /\ UNCHANGED <<clipVars, markVars, detrendVars>>

\* The caller calls one of the queries: a property or a method.
Query(op, r) ==
    /\ lpc = "built"
    /\ ret' = [op |-> op, val |-> r.val]
    /\ exc' = r.exc
    /\ UNCHANGED <<heap, call, inst, nfit, writes, lpc>>
    /\ UNCHANGED <<clipVars, markVars, detrendVars>>

Returned(v) == [exc |-> NoExc, val |-> v]

QueryParams == Query("params", Returned(params(inst)))

QueryCovariance == Query("covariance", Returned(covariance(inst)))

QueryModel ==
    Query("get_best_fit_model", Returned(get_best_fit_model(inst, heap, heap[inst.x])))

QueryResiduals == Query("residuals", Returned(residuals(inst, heap)))

QueryVariance == Query("variance", Returned(variance(inst, heap)))

QueryAmplitude == Query("compute_amplitude", compute_amplitude(inst, heap))

QueryPhase == Query("compute_phase", compute_phase(inst, heap))

\* The arrays the caller still holds after the call: x and y, and s when it
\* passed an array.
CallerRefs == {"x", "y"} \cup (IF call.s_form = "array" THEN {"s"} ELSE {})

\* The caller overwrites, in place, the last sample of one of its own arrays.
CallerWrite(ref) ==
    /\ lpc = "built"
    /\ writes < MaxWrites
    /\ ref \in CallerRefs
    /\ heap' = [heap EXCEPT ![ref][Len(heap[ref])] = Fin(2)]
    /\ writes' = writes + 1
    /\ ret' = [op |-> "write", val |-> <<>>]
    /\ exc' = NoExc
    /\ UNCHANGED <<call, inst, nfit, lpc>>
    /\ UNCHANGED <<clipVars, markVars, detrendVars>>

CallerWrites == \E ref \in {"x", "y", "s"} : CallerWrite(ref)

ClipIdle ==
    /\ cargs = <<>> /\ idx = <<>> /\ oldNumClipped = 0 /\ iter = 0
    /\ cpc = "idle" /\ cret = <<>> /\ cexc = NoExc /\ ccall = 0
    /\ cfirst = [mask |-> <<>>, how |-> "none"]

MarkIdle ==
    /\ margs = <<>> /\ mpc = "idle" /\ tts = <<>> /\ midx = <<>>
    /\ mseen = 0 /\ mwarn = 0 /\ mexc = NoExc

NoWindow == [lwr |-> 0, upr |-> 0, sub |-> <<>>, i |-> -1]

DetrendIdle ==
    /\ dargs = <<>> /\ dpc = "idle" /\ di = 0 /\ dwin = NoWindow
    /\ filtered = <<>> /\ dret = NoRet

LSFIdle ==
    /\ heap = [x |-> <<>>, y |-> <<>>, s |-> <<>>, s_new |-> <<>>]
    /\ call = <<>> /\ inst = NoInst /\ exc = NoExc /\ ret = NoRet
    /\ nfit = 0 /\ writes = 0 /\ lpc = "new"

InitLSF == LSFIdle /\ ClipIdle /\ MarkIdle /\ DetrendIdle

NextLSF ==
    \/ ConstructData
    \/ ConstructShape
    \/ QueryParams
    \/ QueryCovariance
    \/ QueryModel
    \/ QueryResiduals
    \/ QueryVariance
    \/ QueryAmplitude
    \/ QueryPhase
    \/ CallerWrites

SpecLSF == InitLSF /\ [][NextLSF]_vars

----------------------------------------------------------------------------
(* Properties of WqedLSF *)

\* The conditions under which construction must fail, read off the arguments
\* of the call (the caller's arrays are as passed while writes = 0).
NonFinite(a) == \E k \in 1..Len(a) : a[k].k \in {"nan", "inf"}

BadInput ==
    \/ Len(heap.x) = 0
    \/ Len(heap.x) # Len(heap.y)
    \/ call.order < 1
    \/ call.order >= Len(heap.x)
    \/ NonFinite(heap.x)
    \/ NonFinite(heap.y)
    \/ call.s_form = "array" /\ Len(heap.s) # Len(heap.x)
    \/ call.func = "sine" /\ "period" \notin DOMAIN call.kwargs

SNonFinite ==
    \/ call.s_form = "scalar" /\ call.s_v.k \in {"nan", "inf"}
    \/ call.s_form = "array" /\ Len(heap.s) = Len(heap.x) /\ NonFinite(heap.s)

\* C1: whenever x is empty, the lengths of x and y differ, order < 1,
\* order >= len(x), x or y holds a NaN or an Inf, s is an array of another
\* length, or the basis is sine and no period is given, the constructor
\* raises a ValueError before _fit runs and yields no instance; when none of
\* these holds and s is finite, _fit has run once inside the constructor.
C1_ValidationFails ==
    (lpc # "new" /\ writes = 0) =>
        /\ BadInput => (exc.type = "ValueError" /\ inst = NoInst /\ nfit = 0
                        /\ lpc = "failed")
        /\ (~BadInput /\ ~SNonFinite) => nfit = 1

C1_Witness ==
    /\ lpc = "failed" /\ nfit = 0 /\ exc.type = "ValueError"
    /\ call.order >= Len(heap.x) /\ Len(heap.x) > 0
    /\ Len(heap.x) = Len(heap.y) /\ call.order >= 1
    /\ ~NonFinite(heap.x) /\ ~NonFinite(heap.y)
    /\ call.func = "poly"

\* C2: whenever s holds a NaN or an Inf, as a per-point array of the length of
\* x or as a scalar, the constructor raises a ValueError before _fit runs, and
\* no instance exists whose stored s has a non-finite entry.
C2_NonFiniteSRejected ==
    /\ (lpc # "new" /\ writes = 0 /\ SNonFinite) =>
            (exc.type = "ValueError" /\ inst = NoInst /\ nfit = 0)
    /\ (lpc = "built" /\ writes = 0) => ~NonFinite(heap[inst.s])

\* C3: on a sine/order-2 fit with a non-zero amplitude the phase that
\* compute_phase returns is >= 0 and < 2*pi.
C3_PhaseInRange ==
    (/\ ret.op = "compute_phase" /\ exc = NoExc
     /\ all_isfinite(inst.param)
     /\ (inst.param[1].n # 0 \/ inst.param[2].n # 0)) =>
        /\ isfinite(ret.val[1])
        /\ ret.val[1].n >= 0
        /\ ret.val[1].n < 2 * Pi * ret.val[1].d

\* C11: in compute_phase an input on a quadrant boundary, where r1 = par[0]/amp
\* or r2 = -par[1]/amp is exactly zero, takes the quadrant I no-op branch, so
\* invcos and invsin are averaged unmodified; an input with both r1 and r2
\* non-zero takes the branch matching their signs (I: +,+; II: -,+; III: -,-;
\* IV: +,-).
C11_BoundaryIsQuadrantI ==
    (/\ ret.op = "compute_phase" /\ exc = NoExc
     /\ all_isfinite(inst.param)
     /\ (inst.param[1].n # 0 \/ inst.param[2].n # 0)) =>
        LET amp == compute_amplitude(inst, heap).val[1]
            r1 == ratio(params(inst)[1], amp)
            r2 == negate(ratio(params(inst)[2], amp))
            q == quadrant(r1, r2)
        IN  /\ (r1.sgn = 0 \/ r2.sgn = 0) =>
                    /\ q = "I"
                    /\ adjust(q, arccos_fabs(r1)) = arccos_fabs(r1)
                    /\ adjust(q, arcsin_fabs(r2)) = arcsin_fabs(r2)
            /\ (r1.sgn > 0 /\ r2.sgn > 0) => q = "I"
            /\ (r1.sgn < 0 /\ r2.sgn > 0) => q = "II"
            /\ (r1.sgn < 0 /\ r2.sgn < 0) => q = "III"
            /\ (r1.sgn > 0 /\ r2.sgn < 0) => q = "IV"

\* C9: compute_amplitude and compute_phase raise a ValueError exactly on the
\* fits whose basis is not sine or whose order is not 2, and a call that
\* raises returns no value.
C9_UsageError ==
    ret.op \in {"compute_amplitude", "compute_phase"} =>
        /\ (inst.func # "sine" \/ inst.order # 2) <=> (exc.type = "ValueError")
        /\ exc.type \in {"ValueError", "none"}
        /\ (exc.type = "ValueError") => ret.val = <<>>
        /\ (exc.type = "none") => Len(ret.val) = 2

C9_Witness ==
    /\ ret.op = "compute_phase" /\ exc.type = "ValueError"
    /\ inst.func = "poly" /\ inst.order = 2

\* What each query returns in the current state.
QueryValue(op, self, h) ==
    CASE op = "params" -> params(self)
      [] op = "covariance" -> covariance(self)
      [] op = "get_best_fit_model" -> get_best_fit_model(self, h, h[self.x])
      [] op = "residuals" -> residuals(self, h)
      [] op = "variance" -> variance(self, h)
      [] op = "compute_amplitude" -> compute_amplitude(self, h).val
      [] op = "compute_phase" -> compute_phase(self, h).val

Queries ==
    {"params", "covariance", "get_best_fit_model", "residuals", "variance",
     "compute_amplitude", "compute_phase"}

\* C10 as claimed: once the instance is built, what every query returns never
\* changes, whatever the caller does to the arrays it passed.
C10_SameOnEveryQuery ==
    [][lpc = "built" =>
            \A op \in Queries :
                QueryValue(op, inst', heap') = QueryValue(op, inst, heap)]_vars

\* C10 as amended: _fit runs once, in the constructor; after it no step
\* changes a field of the instance, and no step but a write of the caller
\* changes an array; params and covariance return the stored values, so the
\* same values on every query even across writes of the caller; every query
\* returns the value that the instance and the arrays it refers to
\* determine, so the same value as long as those arrays are not written.
C10_FrozenButAliased ==
    /\ [](lpc = "built" => nfit = 1)
    /\ [][lpc = "built" =>
            /\ inst' = inst /\ nfit' = nfit /\ lpc' = "built"
            /\ params(inst') = params(inst)
            /\ covariance(inst') = covariance(inst)
            /\ (writes' = writes => heap' = heap)
            /\ (ret'.op \in Queries =>
                    ret'.val = QueryValue(ret'.op, inst', heap'))]_vars

\* A query made after the caller wrote into an array the instance refers to.
C10_Witness ==
    /\ lpc = "built" /\ writes > 0 /\ ret.op = "residuals"
    /\ inst.order = 2 /\ inst.func = "sine"

----------------------------------------------------------------------------
(* sigmaClip *)

MaxY == 4         \* longest series passed to sigmaClip
MaxIter == 3      \* largest iteration budget maxIter
MaxSigma == 2     \* largest threshold nSigma

\* The samples of a series are integer-valued floats or NaN.  nanmean and
\* nanstd read the unflagged samples that are not NaN; with n their number,
\* s1 their sum and s2 the sum of their squares,
\*     mean = s1 / n        std^2 = (n * s2 - s1^2) / n^2
\* and both are NaN when n = 0.
counted(y, mask, k) == ~mask[k] /\ ~isnan(y[k])

\* The sum of y[k]^p over the counted samples among the first n.
RECURSIVE moment(_, _, _, _)
moment(y, mask, p, n) ==
    IF n = 0 THEN 0
    ELSE moment(y, mask, p, n - 1)
         + (IF ~counted(y, mask, n) THEN 0
            ELSE CASE p = 0 -> 1 [] p = 1 -> y[n].n [] p = 2 -> y[n].n * y[n].n)

\* np.fabs(y - mean) > nSigma * std for one sample: both sides are
\* non-negative (nSigma >= 0), so the squares are compared, scaled by n^2.
\* False when the sample is NaN, or the mean and the std are (n = 0).
exceeds(yk, n, s1, s2, nSigma) ==
    /\ isfinite(yk)
    /\ n > 0
    /\ (n * yk.n - s1) * (n * yk.n - s1) > nSigma * nSigma * (n * s2 - s1 * s1)

outliers(y, n, s1, s2, nSigma) ==
    [k \in 1..Len(y) |-> exceeds(y[k], n, s1, s2, nSigma)]

\* A union that forgets the mask so far.
logical_or_right_only(a, b) == b

logical_or(a, b) == [k \in 1..Len(a) |-> a[k] \/ b[k]]

\* np.sum of a mask
num_true(mask) == Cardinality({k \in 1..Len(mask) : mask[k]})

\* A convergence test that stops as soon as the count has not dropped.
converged_not_below(newNumClipped, old) == newNumClipped >= old

\* The convergence test of the loop.
converged(newNumClipped, old) == newNumClipped = old

zeros(n) == [k \in 1..n |-> FALSE]

\* idx as the prologue sets it from initialClip
initial_idx(y, initialClip) ==
    IF initialClip.given THEN initialClip.mask ELSE zeros(Len(y))
\* Lines 185-195: idx from initialClip, the length check, oldNumClipped.
Entered(y, nSigma, maxIter, initialClip, mask) ==
    /\ cargs' = [y |-> y, nSigma |-> nSigma, maxIter |-> maxIter,
                 initialClip |-> initialClip]
    /\ iter' = 0
    /\ cret' = <<>>
    /\ idx' = mask
    /\ IF Len(mask) # Len(y)
       THEN /\ cpc' = "raised"
            /\ cexc' = AssertionError("length of array y not equal to initialClip")
            /\ oldNumClipped' = 0
       ELSE /\ cpc' = "loop"
            /\ cexc' = NoExc
            /\ oldNumClipped' = num_true(mask)

\* The samples of the model.  sigmaClip reads y through its mean, its std and
\* elementwise comparisons only, so the order of the samples is immaterial:
\* series are drawn in non-decreasing order, NaNs last.
ClipSamples == <<Fin(0), Fin(1), Fin(3), NaN>>

NonDecreasing(n) ==
    {f \in [1..n -> 1..Len(ClipSamples)] : \A k \in 1..(n - 1) : f[k] <= f[k + 1]}

ClipSeries(n) == {[k \in 1..n |-> ClipSamples[f[k]]] : f \in NonDecreasing(n)}

NoClip == [given |-> FALSE, mask |-> <<>>]

\* initialClip: omitted, any mask of the length of y, or a mask one too long.
InitialClips(n) ==
    {NoClip} \cup {[given |-> TRUE, mask |-> m] : m \in [1..n -> BOOLEAN] \cup {zeros(n + 1)}}

\* A client calls sigmaClip(y, nSigma, maxIter, initialClip).
ClipCall ==
    /\ cpc = "idle"
    /\ \E n \in 0..MaxY, nSigma \in 0..MaxSigma, maxIter \in 0..MaxIter :
          \E y \in ClipSeries(n), initialClip \in InitialClips(n) :
              Entered(y, nSigma, maxIter, initialClip, initial_idx(y, initialClip))
    /\ ccall' = 1
    /\ UNCHANGED cfirst
    /\ UNCHANGED <<lsfVars, markVars, detrendVars>>

\* Lines 202-211, given newIdx: return it when the count is unchanged,
\* otherwise carry it into the next iteration.
Iterated(new) ==
    IF converged(num_true(new), oldNumClipped)
    THEN /\ cpc' = "converged"
         /\ cret' = new
         /\ UNCHANGED <<idx, oldNumClipped>>
    ELSE /\ cpc' = "loop"
         /\ idx' = new
         /\ oldNumClipped' = num_true(new)
         /\ UNCHANGED cret

\* One iteration of the for loop: the mean and the std of the unflagged
\* samples, newIdx, and the test of the count.
ClipIterate ==
    /\ cpc = "loop"
    /\ iter < cargs.maxIter
    /\ iter' = iter + 1
    /\ \E n \in {moment(cargs.y, idx, 0, Len(cargs.y))},
          s1 \in {moment(cargs.y, idx, 1, Len(cargs.y))},
          s2 \in {moment(cargs.y, idx, 2, Len(cargs.y))} :
       \E newIdx \in {logical_or(idx, outliers(cargs.y, n, s1, s2, cargs.nSigma))} :
          Iterated(newIdx)
    /\ UNCHANGED <<cargs, cexc, cfirst, ccall>>
    /\ UNCHANGED <<lsfVars, markVars, detrendVars>>

\* range(int(maxIter)) is used up: return idx (line 213).
ClipExhausted ==
    /\ cpc = "loop"
    /\ iter >= cargs.maxIter
    /\ cpc' = "exhausted"
    /\ cret' = idx
    /\ UNCHANGED <<cargs, idx, oldNumClipped, iter, cexc, cfirst, ccall>>
    /\ UNCHANGED <<lsfVars, markVars, detrendVars>>

\* The client calls sigmaClip again on the same y, nSigma and maxIter, with
\* the mask the first call returned as initialClip.
ClipRerun ==
    /\ cpc \in {"converged", "exhausted"}
    /\ ccall = 1
    /\ cfirst' = [mask |-> cret, how |-> cpc]
    /\ ccall' = 2
    /\ Entered(cargs.y, cargs.nSigma, cargs.maxIter,
               [given |-> TRUE, mask |-> cret], cret)
    /\ UNCHANGED <<lsfVars, markVars, detrendVars>>

InitClip == LSFIdle /\ ClipIdle /\ MarkIdle /\ DetrendIdle

NextClip ==
    \/ ClipCall
    \/ ClipIterate
    \/ ClipExhausted
    \/ ClipRerun

SpecClip == InitClip /\ [][NextClip]_vars
\* The loop is a sequential for loop: a call that is in it goes on.
FairClip == SpecClip /\ WF_vars(ClipIterate \/ ClipExhausted)


----------------------------------------------------------------------------
(* Properties of sigmaClip *)

ClipReturned == cpc \in {"converged", "exhausted"}

contains(big, small) ==
    /\ Len(big) = Len(small)
    /\ \A k \in 1..Len(small) : small[k] => big[k]

\* C4 as claimed: the re-run of sigmaClip on the same y, nSigma and maxIter,
\* started from the mask the first call returned, returns that very mask.
C4_Idempotent == (ccall = 2 /\ ClipReturned) => cret = cfirst.mask

\* C4 as amended: the re-run returns the mask of the first call whenever the
\* first call returned from inside the loop, on an unchanged count (or
\* maxIter is 0); a first call can run out of budget only when maxIter does
\* not exceed the number of points its initial mask left unflagged, and then
\* the re-run returns a mask that contains the first one.
C4_IdempotentOnceConverged ==
    /\ (ccall = 2 /\ ClipReturned) =>
          /\ (cfirst.how = "converged" \/ cargs.maxIter = 0) =>
                (cret = cfirst.mask /\ (cargs.maxIter > 0 => cpc = "converged" /\ iter = 1))
          /\ contains(cret, cfirst.mask)
    /\ cpc = "exhausted" =>
          cargs.maxIter <= Len(cargs.y)
                - num_true(initial_idx(cargs.y, cargs.initialClip))

\* The re-run of a call that clipped two points and converged.
C4_Witness ==
    /\ ccall = 2 /\ cpc = "converged" /\ cfirst.how = "converged"
    /\ num_true(cret) = 2 /\ Len(cret) = 4
    /\ cargs.nSigma = 1 /\ cargs.maxIter = 3

\* C5: when the initial mask has the length of y the call raises nothing; the
\* mask after an iteration contains the mask before it and the returned mask
\* contains the initial one; the loop runs at most maxIter iterations, goes
\* on only while the count of flagged points changes and returns at the first
\* iteration that leaves it unchanged; when the budget is used up it returns
\* the last mask computed, without an error; a call in the loop returns.
C5_GrowsAndStops ==
    /\ [](cpc # "idle" =>
            /\ iter <= cargs.maxIter
            /\ (cpc = "raised") <=>
                  (Len(initial_idx(cargs.y, cargs.initialClip)) # Len(cargs.y))
            /\ (cpc # "raised") => cexc = NoExc)
    /\ [](ClipReturned =>
            /\ contains(cret, initial_idx(cargs.y, cargs.initialClip))
            /\ cret = idx)
    /\ [][cpc = "loop" =>
            /\ cpc' \in {"loop", "converged", "exhausted"}
            /\ (cpc' = "loop" =>
                  /\ contains(idx', idx) /\ iter' = iter + 1
                  /\ num_true(idx') > num_true(idx))
            /\ (cpc' = "converged" =>
                  /\ contains(cret', idx) /\ iter' = iter + 1
                  /\ num_true(cret') = num_true(idx))
            /\ (cpc' = "exhausted" =>
                  cret' = idx /\ iter = cargs.maxIter /\ cexc' = NoExc)]_vars
    /\ (cpc = "loop" ~> ClipReturned)

\* A call that used up a budget of two iterations, each of which clipped.
C5_Witness ==
    /\ ccall = 1 /\ cpc = "exhausted" /\ iter = 2 /\ cargs.maxIter = 2
    /\ num_true(cret) = 2 /\ ~cargs.initialClip.given

----------------------------------------------------------------------------
(* mark_transit_cadences *)

MaxT == 10        \* longest time array
MaxPeriod == 5    \* largest period_days
MaxEpoch == 2     \* largest epoch_bkjd
MaxDuration == 2  \* largest duration_days
MaxNum == 2       \* largest num_durations

\* sys.float_info.max stands in the model as a finite value larger than any
\* max_diff.
FloatMax == 1000000

big_num == Fin(FloatMax)

FLess(a, b) == isfinite(a) /\ isfinite(b) /\ a.n * b.d < b.n * a.d

fabs(a) == IF isfinite(a) THEN Rat(Abs(a.n), a.d) ELSE a

\* np.floor and np.ceil: NaN and Inf pass through.
floor(a) == IF isfinite(a) THEN Fin(a.n \div a.d) ELSE a

ceil(a) == IF isfinite(a) THEN Fin(-((-a.n) \div a.d)) ELSE a

NoFlags == [given |-> FALSE, mask |-> <<>>]

\* flags, after the default of lines 106-107
flags_of(time, flags) == IF flags.given THEN flags.mask ELSE zeros(Len(time))

\* time[~flags]
RECURSIVE good_time(_, _)
good_time(time, mask) ==
    IF time = <<>> THEN <<>>
    ELSE (IF Head(mask) THEN <<>> ELSE <<Head(time)>>)
            \o good_time(Tail(time), Tail(mask))

\* np.min and np.max of a non-empty array: NaN as soon as one entry is NaN.
np_min(a) ==
    IF \E k \in 1..Len(a) : isnan(a[k]) THEN NaN
    ELSE CHOOSE m \in {a[k] : k \in 1..Len(a)} :
            \A k \in 1..Len(a) : ~FLess(a[k], m)

np_max(a) ==
    IF \E k \in 1..Len(a) : isnan(a[k]) THEN NaN
    ELSE CHOOSE m \in {a[k] : k \in 1..Len(a)} :
            \A k \in 1..Len(a) : ~FLess(m, a[k])

\* (t - epoch_bkjd) / period_days, which lines 110-111 round to i0 and i1
cycle(t, epoch, period) == FDiv(FSub(t, Fin(epoch)), Fin(period))

\* A bounds test that lets an infinite bound through.
bounds_finite_nan_only(i0, i1) == ~isnan(i0) /\ ~isnan(i1)

\* The test of line 112.
bounds_finite(i0, i1) == isfinite(i0) /\ isfinite(i1)

\* epoch_bkjd + period_days * np.arange(i0, i1 + 1)
transit_times(epoch, period, i0, i1) ==
    [j \in 1..(IF i1 + 1 > i0 THEN i1 + 1 - i0 ELSE 0) |->
        FAdd(Fin(epoch), FMul(Fin(period), Fin(i0 + j - 1)))]

\* 0.5 * duration_days * num_durations
max_diff(duration, num) == Rat(duration * num, 2)

\* diff of lines 121-122 for one transit time
diff_of(time, mask, tt) ==
    [k \in 1..Len(time) |-> IF mask[k] THEN big_num ELSE FSub(time[k], tt)]

\* A window that takes its edge in.
near_or_at(diff, md) == [k \in 1..Len(diff) |-> ~FLess(md, fabs(diff[k]))]

\* np.fabs(diff) < max_diff
near(diff, md) == [k \in 1..Len(diff) |-> FLess(fabs(diff[k]), md)]

bitwise_or(a, b) == [k \in 1..Len(a) |-> a[k] \/ b[k]]

\* One pass of the loop body, lines 121-126, on the loop's state so far.
loop_body(diff, md, acc) ==
    IF ~all_isfinite(diff)
    THEN [idx |-> acc.idx, seen |-> acc.seen + 1,
          exc |-> ValueError("NaN found in diff of transit time")]
    ELSE [idx |-> bitwise_or(acc.idx, near(diff, md)), seen |-> acc.seen + 1,
          exc |-> NoExc]

\* The for loop over transit_times, from its j-th element on.
RECURSIVE loop(_, _, _, _, _, _)
loop(time, mask, times, md, j, acc) ==
    IF j > Len(times) \/ acc.exc # NoExc THEN acc
    ELSE loop(time, mask, times, md, j + 1,
              loop_body(diff_of(time, mask, times[j]), md, acc))

\* What the call has computed when it stops, at each exit of the function.
raised(e, times, seen) ==
    [pc |-> "raised", exc |-> e, idx |-> <<>>, tts |-> times, seen |-> seen,
     warn |-> 0]

\* A warning issued whenever some cadence is unmarked.
warns_unless_all(mask) == IF \A k \in 1..Len(mask) : mask[k] THEN 0 ELSE 1

\* Lines 128-129: the number of warnings issued.
warns(mask) == IF \E k \in 1..Len(mask) : mask[k] THEN 0 ELSE 1

\* Lines 119-131, given transit_times and the result of the loop.
looped(times, r) ==
    IF r.exc # NoExc THEN raised(r.exc, times, r.seen)
    ELSE [pc |-> "returned", exc |-> NoExc, idx |-> r.idx, tts |-> times,
          seen |-> r.seen, warn |-> warns(r.idx)]

\* Lines 112-131, given i0 and i1.
bounded(in, mask, i0, i1) ==
    IF ~bounds_finite(i0, i1)
    THEN raised(ValueError("Error bounding transit time"), <<>>, 0)
    ELSE looped(transit_times(in.epoch, in.period, i0.n, i1.n),
                loop(in.time, mask,
                     transit_times(in.epoch, in.period, i0.n, i1.n),
                     max_diff(in.duration, in.num), 1,
                     [idx |-> zeros(Len(in.time)), seen |-> 0, exc |-> NoExc]))

\* Lines 109-131, given flags and good_time: np.min of an empty array raises.
selected(in, mask, good) ==
    IF good = <<>>
    THEN raised(ValueError("zero-size array to reduction operation minimum which has no identity"),
                <<>>, 0)
    ELSE bounded(in, mask,
                 floor(cycle(np_min(good), in.epoch, in.period)),
                 ceil(cycle(np_max(good), in.epoch, in.period)))

mark_transit_cadences(in) ==
    selected(in, flags_of(in.time, in.flags),
             good_time(in.time, flags_of(in.time, in.flags)))

\* The cadence times of the model: the grid 0, 1, 2, ... of daily cadences,
\* whole or with its first or its last entry NaN.
MarkGrid(n) == [k \in 1..n |-> Fin(k - 1)]

MarkTimes(n) ==
    {MarkGrid(n)} \cup {[MarkGrid(n) EXCEPT ![k] = NaN] : k \in {1, n} \cap 1..n}

\* flags: omitted, one cadence flagged, or every cadence flagged.
MarkFlags(n) ==
    {NoFlags}
        \cup {[given |-> TRUE, mask |-> [j \in 1..n |-> j = k]] : k \in 1..n}
        \cup {[given |-> TRUE, mask |-> [j \in 1..n |-> TRUE]]}

\* period_days: a number of days between two transits, or zero, the
\* degenerate ephemeris.  Negative periods are not drawn.
Periods == 0..MaxPeriod

Marked(in, r) ==
    /\ margs' = in
    /\ mpc' = r.pc
    /\ mexc' = r.exc
    /\ midx' = r.idx
    /\ tts' = r.tts
    /\ mseen' = r.seen
    /\ mwarn' = r.warn

\* A client calls mark_transit_cadences(time, period_days, epoch_bkjd,
\* duration_days, num_durations, flags).
MarkCall ==
    /\ mpc = "idle"
    /\ \E n \in 0..MaxT, period \in Periods, epoch \in 0..MaxEpoch,
          duration \in 0..MaxDuration, num \in 1..MaxNum :
          \E time \in MarkTimes(n), flags \in MarkFlags(n) :
              \E in \in {[time |-> time, period |-> period, epoch |-> epoch,
                          duration |-> duration, num |-> num, flags |-> flags]} :
                  Marked(in, mark_transit_cadences(in))
    /\ UNCHANGED <<lsfVars, clipVars, detrendVars>>

InitMark == LSFIdle /\ ClipIdle /\ MarkIdle /\ DetrendIdle

NextMark == MarkCall

SpecMark == InitMark /\ [][NextMark]_vars

----------------------------------------------------------------------------
(* Properties of mark_transit_cadences *)

MarkMask == flags_of(margs.time, margs.flags)

Cadences == 1..Len(margs.time)

\* Every cycle number k whose transit center can lie within a window of a
\* cadence, for a period of 1 or more.
AnyCycle ==
    -(MaxT + MaxEpoch + MaxDuration * MaxNum)..(MaxT + MaxEpoch + MaxDuration * MaxNum)

\* |time[i] - (epoch + k*period)| < 0.5 * duration * num_durations
InWindow(i, k) ==
    /\ isfinite(margs.time[i])
    /\ 2 * Abs(margs.time[i].n - (margs.epoch + k * margs.period) * margs.time[i].d)
            < margs.duration * margs.num * margs.time[i].d

Matches(i) == ~MarkMask[i] /\ \E k \in AnyCycle : InWindow(i, k)

ExampleCall ==
    [time |-> MarkGrid(10), period |-> 5, epoch |-> 2, duration |-> 1,
     num |-> 1, flags |-> NoFlags]

ExampleMask ==
    <<FALSE, FALSE, TRUE, FALSE, FALSE, FALSE, FALSE, TRUE, FALSE, FALSE>>

\* C6: the mask returned has the length of time, and cadence i is True in it
\* exactly when it is unflagged and lies strictly within half of
\* duration * num_durations of epoch + k*period for some integer k, inside or
\* outside the cycle range the code visits; the call of the example returns
\* the mask of the example.
C6_MaskIffNearCenter ==
    /\ mpc = "returned" =>
          /\ Len(midx) = Len(margs.time)
          /\ \A i \in Cadences : midx[i] <=> Matches(i)
    /\ (mpc # "idle" /\ margs = ExampleCall) =>
          (mpc = "returned" /\ midx = ExampleMask)

\* Cadences 1 and 3 lie at exactly half the duration from the center at 2.
C6_Witness ==
    /\ mpc = "returned" /\ margs.period = 5 /\ margs.epoch = 2
    /\ margs.duration = 2 /\ margs.num = 1 /\ margs.time = MarkGrid(10)
    /\ midx[3] /\ ~midx[2] /\ ~midx[4]

\* No cadence is unflagged: time is empty, or every cadence is flagged.
ValidEmpty == \A i \in Cadences : MarkMask[i]

\* The bounds i0, i1 cannot be finite: the period is zero, or the time of an
\* unflagged cadence is NaN.
Degenerate ==
    \/ margs.period = 0
    \/ \E i \in Cadences : ~MarkMask[i] /\ ~isfinite(margs.time[i])

\* C7: a call whose bounds are finite and that finds no unflagged cadence
\* within a window does not fail, issues one warning and returns a mask of
\* the length of time that is False everywhere; and a call that returns has
\* issued the warning exactly when its mask is False everywhere.
C7_WarnsOnEmptyMask ==
    /\ mpc = "returned" =>
          /\ Len(midx) = Len(margs.time)
          /\ mwarn \in {0, 1}
          /\ (mwarn = 1) <=> (\A i \in Cadences : ~midx[i])
    /\ (mpc # "idle" /\ ~ValidEmpty /\ ~Degenerate
            /\ \A i \in Cadences : ~Matches(i)) =>
          /\ mpc = "returned" /\ mexc = NoExc /\ mwarn = 1
          /\ midx = zeros(Len(margs.time))

\* A duration of zero, on ten cadences.
C7_Witness ==
    /\ mpc = "returned" /\ mwarn = 1 /\ margs.duration = 0
    /\ margs.period = 5 /\ Len(midx) = 10 /\ Len(tts) > 1

\* C8 as claimed: when no cadence is unflagged, or the bounds i0, i1 are not
\* finite, the call raises ValueError('Error bounding transit time'), returns
\* no mask and evaluates no transit center.
C8_BoundingError ==
    (mpc # "idle" /\ (ValidEmpty \/ Degenerate)) =>
        /\ mpc = "raised"
        /\ mexc = ValueError("Error bounding transit time")
        /\ midx = <<>> /\ mseen = 0 /\ mwarn = 0

\* C8 as amended: in both cases the call raises a ValueError, returns no mask
\* and evaluates no transit center; the error is 'Error bounding transit
\* time' when the bounds are not finite, and the error np.min raises on an
\* empty array, before any bound is computed, when no cadence is unflagged.
\* No other call fails.
C8_BoundingOrEmptyError ==
    /\ (mpc # "idle" /\ (ValidEmpty \/ Degenerate)) =>
          /\ mpc = "raised"
          /\ mexc.type = "ValueError"
          /\ midx = <<>> /\ mseen = 0 /\ mwarn = 0 /\ tts = <<>>
          /\ (mexc.msg = "Error bounding transit time") <=> ~ValidEmpty
    /\ mpc = "raised" => (ValidEmpty \/ Degenerate)

\* Every cadence of a non-empty time array is flagged.
C8_Witness ==
    /\ mpc = "raised" /\ ValidEmpty /\ Len(margs.time) = 3
    /\ mexc.type = "ValueError" /\ margs.period = 5

----------------------------------------------------------------------------
(* median_detrend *)

MaxFlux == 3      \* longest flux array
MaxPoints == 2    \* largest nPoints

max(a, b) == IF a >= b THEN a ELSE b

min(a, b) == IF a <= b THEN a ELSE b

\* lwr and upr as the loop body leaves them for the 0-based index i.
window(i, nPoints, size) ==
    LET lwr == max(i - nPoints, 0)
        upr == min(lwr + 2 * nPoints, size)
    IN  [lwr |-> upr - 2 * nPoints, upr |-> upr]

\* Where a slice bound k lands in an array of the given size: a negative
\* bound counts from the end, and either bound is then clipped to 0..size.
slice_bound(k, size) == IF k < 0 THEN max(k + size, 0) ELSE min(k, size)

\* flux[lwr:upr], for 0-based bounds.
slice(flux, lwr, upr) ==
    IF slice_bound(lwr, Len(flux)) >= slice_bound(upr, Len(flux)) THEN <<>>
    ELSE SubSeq(flux, slice_bound(lwr, Len(flux)) + 1,
                slice_bound(upr, Len(flux)))

\* The element of a NaN-free, non-empty sub at the 0-based position k of
\* its sorted order.
sorted_at(sub, k) ==
    CHOOSE v \in {sub[j] : j \in 1..Len(sub)} :
        /\ Cardinality({j \in 1..Len(sub) : FLess(sub[j], v)}) <= k
        /\ k < Cardinality({j \in 1..Len(sub) : ~FLess(v, sub[j])})

\* np.median: NaN for an empty array and for one that holds a NaN, the
\* middle element of the sorted array or the mean of its two middle ones.
\* The flux carries no infinities.
median(sub) ==
    IF sub = <<>> \/ \E j \in 1..Len(sub) : isnan(sub[j]) THEN NaN
    ELSE IF Len(sub) % 2 = 1 THEN sorted_at(sub, Len(sub) \div 2)
    ELSE FMul(Rat(1, 2), FAdd(sorted_at(sub, Len(sub) \div 2 - 1),
                              sorted_at(sub, Len(sub) \div 2)))

zeros_like(flux) == [k \in 1..Len(flux) |-> Fin(0)]

DetrendSamples == <<Fin(0), Fin(1), Fin(3), NaN>>

DetrendSeries ==
    UNION {[1..n -> {DetrendSamples[k] : k \in 1..Len(DetrendSamples)}] :
             n \in 0..MaxFlux}

DetrendPoints == -1..MaxPoints

\* The call, up to the loop: size = len(flux), filtered = np.zeros_like(flux)
DetrendCall ==
    /\ dpc = "idle"
    /\ \E flux \in DetrendSeries, nPoints \in DetrendPoints :
        /\ dargs' = [flux |-> flux, nPoints |-> nPoints]
        /\ filtered' = zeros_like(flux)
    /\ dpc' = "loop" /\ di' = 0
    /\ UNCHANGED <<dwin, dret>>
    /\ UNCHANGED <<lsfVars, clipVars, markVars>>

\* One pass of the loop body, for i = di.
DetrendIterate ==
    /\ dpc = "loop" /\ di < Len(dargs.flux)
    /\ \E w \in {window(di, dargs.nPoints, Len(dargs.flux))} :
       \E sub \in {slice(dargs.flux, w.lwr, w.upr)} :
        /\ dwin' = [lwr |-> w.lwr, upr |-> w.upr, sub |-> sub, i |-> di]
        /\ filtered' = [filtered EXCEPT
                            ![di + 1] = FSub(dargs.flux[di + 1], median(sub))]
    /\ di' = di + 1
    /\ UNCHANGED <<dargs, dpc, dret>>
    /\ UNCHANGED <<lsfVars, clipVars, markVars>>

\* The loop is over: return filtered
DetrendReturn ==
    /\ dpc = "loop" /\ di = Len(dargs.flux)
    /\ dpc' = "returned"
    /\ dret' = [op |-> "median_detrend", val |-> filtered]
    /\ UNCHANGED <<dargs, di, dwin, filtered>>
    /\ UNCHANGED <<lsfVars, clipVars, markVars>>

InitDetrend == LSFIdle /\ ClipIdle /\ MarkIdle /\ DetrendIdle

NextDetrend ==
    \/ DetrendCall
    \/ DetrendIterate
    \/ DetrendReturn

SpecDetrend == InitDetrend /\ [][NextDetrend]_vars

----------------------------------------------------------------------------
(* Properties of median_detrend *)

\* C12: for every series length, every nPoints >= 0 and every index i the
\* window [lwr, upr) whose median is subtracted from flux[i] lies inside the
\* series, 0 <= lwr <= upr <= size; whenever 2*nPoints <= size it has exactly
\* the width 2*nPoints and contains i; and the output is as long as the input.
C12_WindowClamped ==
    /\ (dwin # NoWindow /\ dargs.nPoints >= 0) =>
            /\ 0 <= dwin.lwr /\ dwin.lwr <= dwin.upr
            /\ dwin.upr <= Len(dargs.flux)
            /\ 2 * dargs.nPoints <= Len(dargs.flux) =>
                    /\ dwin.upr - dwin.lwr = 2 * dargs.nPoints
                    /\ dwin.lwr <= dwin.i /\ dwin.i < dwin.upr
    /\ dpc = "returned" => Len(dret.val) = Len(dargs.flux)
====
